---- MODULE Spec2Model ----
(***************************************************************************)
(* Model of the road-trip planner: the weighted-graph library              *)
(* (src/src/graph_algorithms.py) and the day-splitting trip simulator with *)
(* the best-start-date search (src/src/travel_logic.py).                   *)
(*                                                                         *)
(* The graph algorithms are pure functions of the graph: each is an        *)
(* operator computed the way the code computes it (explicit queue, stack,  *)
(* heap, union-find), applied by an action to a graph built by add_edge    *)
(* calls.  Floating-point numbers are modelled by exact values: integers   *)
(* in the graph library (weights are drawn from integers, so every sum is  *)
(* exact in binary64 as well) and normalised fractions in the simulator.   *)
(***************************************************************************)
EXTENDS Integers, Sequences, FiniteSets, TLC

VARIABLES adj, edges, ncalls, pc, arg, out, inp, bt, sim

vars == <<adj, edges, ncalls, pc, arg, out, inp, bt, sim>>

(***************************************************************************)
(* Bounds of the model.                                                    *)
(***************************************************************************)
NumVertices == 3      \* vertices of every graph: 0 .. NumVertices-1
MaxEdges == 3         \* add_edge calls that build a graph

Vertices == 0 .. (NumVertices - 1)

\* float("inf"): larger than every finite distance the model can produce.
INF == 1000000

NoneVal == -1         \* parent = -1, the "no predecessor" marker

(***************************************************************************)
(* Graph.__init__ and Graph.add_edge                                       *)
(***************************************************************************)
EmptyAdj == [v \in Vertices |-> <<>>]

AddEdgeAdj(A, u, v, w, undirected) ==
    LET A1 == [A EXCEPT ![u] = Append(@, <<v, w>>)]
    IN  IF undirected THEN [A1 EXCEPT ![v] = Append(@, <<u, w>>)] ELSE A1

AddEdgeEdges(E, u, v, w, undirected) ==
    LET E1 == Append(E, <<u, v, w>>)
    IN  IF undirected THEN Append(E1, <<v, u, w>>) ELSE E1

(***************************************************************************)
(* Graph.bfs                                                               *)
(***************************************************************************)
\* dist[v] = dist[u] + 1
HopFromMut(du) == du
HopFrom(du) == du + 1

RECURSIVE BfsInner(_, _, _, _)
BfsInner(A, u, k, st) ==
    IF k > Len(A[u]) THEN st
    ELSE LET v == A[u][k][1]
         IN  IF ~st.visited[v]
             THEN BfsInner(A, u, k + 1,
                     [st EXCEPT !.visited[v] = TRUE,
                                !.dist[v] = HopFrom(st.dist[u]),
                                !.parent[v] = u,
                                !.q = Append(@, v)])
             ELSE BfsInner(A, u, k + 1, st)

RECURSIVE BfsLoop(_, _)
BfsLoop(A, st) ==
    IF st.q = <<>> THEN st
    ELSE BfsLoop(A, BfsInner(A, Head(st.q), 1, [st EXCEPT !.q = Tail(@)]))

bfs(A, start) ==
    LET st == BfsLoop(A, [q       |-> <<start>>,
                          visited |-> [v \in Vertices |-> v = start],
                          dist    |-> [v \in Vertices |-> IF v = start THEN 0 ELSE INF],
                          parent  |-> [v \in Vertices |-> NoneVal]])
    IN  [dist |-> st.dist, parent |-> st.parent]

(***************************************************************************)
(* Graph.dfs_recursive                                                     *)
(***************************************************************************)
RECURSIVE DfsVisit(_, _, _)
RECURSIVE DfsNeighbours(_, _, _, _)

\* _dfs(u): mark, record, then descend into each unvisited neighbour in
\* adjacency order.
DfsVisit(A, u, st) ==
    DfsNeighbours(A, u, 1, [visited |-> [st.visited EXCEPT ![u] = TRUE],
                            order   |-> Append(st.order, u)])

DfsNeighbours(A, u, k, st) ==
    IF k > Len(A[u]) THEN st
    ELSE LET v == A[u][k][1]
         IN  DfsNeighbours(A, u, k + 1,
                           IF ~st.visited[v] THEN DfsVisit(A, v, st) ELSE st)

dfs_recursive(A, start) ==
    DfsVisit(A, start, [visited |-> [v \in Vertices |-> FALSE],
                        order   |-> <<>>]).order

(***************************************************************************)
(* Graph.dfs_iterative                                                     *)
(***************************************************************************)
Reversed(s) == [i \in 1 .. Len(s) |-> s[Len(s) + 1 - i]]

\* the order in which dfs_iterative walks adj[u] when it pushes
PushOrderMut(s) == s
PushOrder(s) == Reversed(s)

RECURSIVE PushUnvisited(_, _, _, _)
PushUnvisited(nbrs, k, visited, stack) ==
    IF k > Len(nbrs) THEN stack
    ELSE PushUnvisited(nbrs, k + 1, visited,
                       IF ~visited[nbrs[k][1]]
                       THEN Append(stack, nbrs[k][1]) ELSE stack)

\* st.stale records that a popped vertex was already visited (it had been
\* pushed more than once); it is read by no step of the loop.
RECURSIVE DfsIterLoop(_, _)
DfsIterLoop(A, st) ==
    IF st.stack = <<>> THEN st
    ELSE LET u    == st.stack[Len(st.stack)]
             rest == SubSeq(st.stack, 1, Len(st.stack) - 1)
         IN  IF ~st.visited[u]
             THEN LET vis == [st.visited EXCEPT ![u] = TRUE]
                  IN  DfsIterLoop(A, [visited |-> vis,
                                      order   |-> Append(st.order, u),
                                      stack   |-> PushUnvisited(PushOrder(A[u]), 1, vis, rest),
                                      stale   |-> st.stale])
             ELSE DfsIterLoop(A, [st EXCEPT !.stack = rest, !.stale = TRUE])

DfsIterRun(A, start) ==
    DfsIterLoop(A, [visited |-> [v \in Vertices |-> FALSE],
                    order   |-> <<>>,
                    stack   |-> <<start>>,
                    stale   |-> FALSE])

dfs_iterative(A, start) == DfsIterRun(A, start).order

(***************************************************************************)
(* heapq on tuples: heappop returns the lexicographically least entry.     *)
(***************************************************************************)
RECURSIVE LexLess(_, _)
LexLess(a, b) ==
    IF a = <<>> \/ b = <<>> THEN a = <<>> /\ b # <<>>
    ELSE IF Head(a) # Head(b) THEN Head(a) < Head(b)
    ELSE LexLess(Tail(a), Tail(b))

\* index of the least entry of a non-empty heap (the first one among equals)
HeapMinIdx(h) ==
    CHOOSE i \in 1 .. Len(h) :
        /\ \A j \in 1 .. Len(h) : ~LexLess(h[j], h[i])
        /\ \A j \in 1 .. (i - 1) : h[j] # h[i]

RemoveAt(s, i) == SubSeq(s, 1, i - 1) \o SubSeq(s, i + 1, Len(s))

(***************************************************************************)
(* Graph.prim_mst                                                          *)
(***************************************************************************)
RECURSIVE PrimPush(_, _, _, _, _)
PrimPush(nbrs, k, v, visited, heap) ==
    IF k > Len(nbrs) THEN heap
    ELSE PrimPush(nbrs, k + 1, v, visited,
                  IF ~visited[nbrs[k][1]]
                  THEN Append(heap, <<nbrs[k][2], v, nbrs[k][1]>>) ELSE heap)

RECURSIVE PrimLoop(_, _)
PrimLoop(A, st) ==
    IF st.heap = <<>> THEN st
    ELSE LET i    == HeapMinIdx(st.heap)
             e    == st.heap[i]
             w    == e[1]
             u    == e[2]
             v    == e[3]
             rest == RemoveAt(st.heap, i)
         IN  IF st.visited[v] THEN PrimLoop(A, [st EXCEPT !.heap = rest])
             ELSE LET vis == [st.visited EXCEPT ![v] = TRUE]
                  IN  PrimLoop(A,
                        [visited      |-> vis,
                         mst_edges    |-> IF u # NoneVal THEN Append(st.mst_edges, <<u, v, w>>)
                                          ELSE st.mst_edges,
                         total_weight |-> IF u # NoneVal THEN st.total_weight + w
                                          ELSE st.total_weight,
                         heap         |-> PrimPush(A[v], 1, v, vis, rest)])

prim_mst(A, start) ==
    LET st == PrimLoop(A, [visited      |-> [v \in Vertices |-> FALSE],
                           mst_edges    |-> <<>>,
                           total_weight |-> 0,
                           heap         |-> << <<0, NoneVal, start>> >>])
    IN  [mst_edges |-> st.mst_edges, total_weight |-> st.total_weight]

(***************************************************************************)
(* Graph.kruskal_mst                                                       *)
(***************************************************************************)
\* find(x) with path compression: the root, and the parent array after it
RECURSIVE Find(_, _)
Find(parent, x) ==
    IF parent[x] # x
    THEN LET r == Find(parent, parent[x])
         IN  [root |-> r.root, parent |-> [r.parent EXCEPT ![x] = r.root]]
    ELSE [root |-> x, parent |-> parent]

\* union(a, b): whether the two were in different components, and the
\* union-find state after it
Union(uf, a, b) ==
    LET fa == Find(uf.parent, a)
        fb == Find(fa.parent, b)
        ra == fa.root
        rb == fb.root
        p  == fb.parent
    IN  IF ra = rb THEN [joined |-> FALSE, parent |-> p, rank |-> uf.rank]
        ELSE IF uf.rank[ra] < uf.rank[rb]
             THEN [joined |-> TRUE, parent |-> [p EXCEPT ![ra] = rb], rank |-> uf.rank]
        ELSE IF uf.rank[ra] > uf.rank[rb]
             THEN [joined |-> TRUE, parent |-> [p EXCEPT ![rb] = ra], rank |-> uf.rank]
        ELSE [joined |-> TRUE, parent |-> [p EXCEPT ![rb] = ra],
              rank |-> [uf.rank EXCEPT ![ra] = @ + 1]]

Min2(a, b) == IF a <= b THEN a ELSE b
Max2(a, b) == IF a >= b THEN a ELSE b

\* whether an edge of weight w replaces the weight old kept for its pair
KeepsNewMut(w, old) == w > old
KeepsNew(w, old) == w < old

\* unique_edges: a dict in insertion order, key (min(u,v), max(u,v))
RECURSIVE UniqueEdges(_, _, _)
UniqueEdges(E, k, uniq) ==
    IF k > Len(E) THEN uniq
    ELSE LET a == Min2(E[k][1], E[k][2])
             b == Max2(E[k][1], E[k][2])
             w == E[k][3]
             hit == {i \in 1 .. Len(uniq) : uniq[i][1] = a /\ uniq[i][2] = b}
         IN  IF hit = {} THEN UniqueEdges(E, k + 1, Append(uniq, <<a, b, w>>))
             ELSE LET i == CHOOSE x \in hit : TRUE
                  IN  UniqueEdges(E, k + 1,
                         IF KeepsNew(w, uniq[i][3])
                         THEN [uniq EXCEPT ![i] = <<a, b, w>>] ELSE uniq)

\* sorted(..., key=weight): stable
RECURSIVE InsertByWeight(_, _)
InsertByWeight(s, e) ==
    IF s = <<>> THEN <<e>>
    ELSE IF e[3] < s[Len(s)][3]
         THEN Append(InsertByWeight(SubSeq(s, 1, Len(s) - 1), e), s[Len(s)])
         ELSE Append(s, e)

RECURSIVE SortByWeight(_, _, _)
SortByWeight(s, k, acc) ==
    IF k > Len(s) THEN acc ELSE SortByWeight(s, k + 1, InsertByWeight(acc, s[k]))

RECURSIVE KruskalLoop(_, _, _)
KruskalLoop(sorted, k, st) ==
    IF k > Len(sorted) THEN st
    ELSE LET e == sorted[k]
             r == Union(st.uf, e[1], e[2])
         IN  KruskalLoop(sorted, k + 1,
                [uf           |-> [parent |-> r.parent, rank |-> r.rank],
                 mst_edges    |-> IF r.joined THEN Append(st.mst_edges, e) ELSE st.mst_edges,
                 total_weight |-> IF r.joined THEN st.total_weight + e[3]
                                  ELSE st.total_weight])

kruskal_mst(E) ==
    LET sorted == SortByWeight(UniqueEdges(E, 1, <<>>), 1, <<>>)
        st == KruskalLoop(sorted, 1,
                 [uf           |-> [parent |-> [v \in Vertices |-> v],
                                    rank   |-> [v \in Vertices |-> 0]],
                  mst_edges    |-> <<>>,
                  total_weight |-> 0])
    IN  [mst_edges |-> st.mst_edges, total_weight |-> st.total_weight]

(***************************************************************************)
(* Graph.bellman_ford                                                      *)
(***************************************************************************)
\* dist[u] != INF and dist[u] + w < dist[v]
RelaxesMut(du, w, dv) == du # INF /\ du + w <= dv
Relaxes(du, w, dv) == du # INF /\ du + w < dv

\* one pass over self.edges, from edge k on
RECURSIVE BfScan(_, _, _)
BfScan(E, k, st) ==
    IF k > Len(E) THEN st
    ELSE LET u == E[k][1]
             v == E[k][2]
             w == E[k][3]
         IN  IF Relaxes(st.dist[u], w, st.dist[v])
             THEN BfScan(E, k + 1, [st EXCEPT !.dist[v] = st.dist[u] + w,
                                              !.parent[v] = u,
                                              !.updated = TRUE])
             ELSE BfScan(E, k + 1, st)

\* the number of relaxation passes bellman_ford allows
PassLimitMut == NumVertices - 2
PassLimit == NumVertices - 1

\* for _ in range(n - 1): ... if not updated: break
RECURSIVE BfPasses(_, _)
BfPasses(E, st) ==
    IF st.passes >= PassLimit THEN st
    ELSE LET nx == BfScan(E, 1, [st EXCEPT !.updated = FALSE, !.passes = @ + 1])
         IN  IF ~nx.updated THEN nx ELSE BfPasses(E, nx)

bellman_ford(E, source) ==
    LET st == BfPasses(E, [dist    |-> [v \in Vertices |-> IF v = source THEN 0 ELSE INF],
                           parent  |-> [v \in Vertices |-> NoneVal],
                           updated |-> FALSE,
                           passes  |-> 0])
        neg == \E k \in 1 .. Len(E) :
                   Relaxes(st.dist[E[k][1]], E[k][3], st.dist[E[k][2]])
    IN  [raised  |-> neg,
         dist    |-> st.dist,
         parent  |-> st.parent,
         passes  |-> st.passes,
         updated |-> st.updated]

(***************************************************************************)
(* shortest_path_distance (Dijkstra, travel_logic.py)                      *)
(***************************************************************************)
RECURSIVE DijkstraPush(_, _, _, _)
DijkstraPush(nbrs, k, d, st) ==
    IF k > Len(nbrs) THEN st
    ELSE LET nbr == nbrs[k][1]
             nd  == d + nbrs[k][2]
         IN  IF nd < st.dist[nbr]
             THEN DijkstraPush(nbrs, k + 1, d,
                               [st EXCEPT !.dist[nbr] = nd,
                                          !.pq = Append(@, <<nd, nbr>>)])
             ELSE DijkstraPush(nbrs, k + 1, d, st)

RECURSIVE DijkstraLoop(_, _, _)
DijkstraLoop(A, dst, st) ==
    IF st.pq = <<>> THEN INF
    ELSE LET i    == HeapMinIdx(st.pq)
             d    == st.pq[i][1]
             cur  == st.pq[i][2]
             rest == [st EXCEPT !.pq = RemoveAt(st.pq, i)]
         IN  IF d > st.dist[cur] THEN DijkstraLoop(A, dst, rest)
             ELSE IF cur = dst THEN d
             ELSE DijkstraLoop(A, dst, DijkstraPush(A[cur], 1, d, rest))

shortest_path_distance(A, src, dst) ==
    DijkstraLoop(A, dst, [dist |-> [v \in Vertices |-> IF v = src THEN 0 ELSE INF],
                          pq   |-> << <<0, src>> >>])

(***************************************************************************)
(* Building a graph: Graph(NumVertices), then up to MaxEdges add_edge      *)
(* calls.  W is the set the weights are drawn from and D the values of the *)
(* undirected flag.                                                        *)
(***************************************************************************)
NoTrip == inp = <<>> /\ bt = <<>> /\ sim = <<>>

InitGraph ==
    /\ adj = EmptyAdj
    /\ edges = <<>>
    /\ ncalls = 0
    /\ pc = "build"
    /\ arg = NoneVal
    /\ out = <<>>
    /\ NoTrip

\* add_edge(u, v, w, undirected) with <<u, v>> drawn from P, while fewer than
\* limit calls have been made
AddEdgeFrom(P, W, D, limit) ==
    /\ pc = "build"
    /\ ncalls < limit
    /\ \E p \in P, w \in W, undirected \in D :
          /\ adj' = AddEdgeAdj(adj, p[1], p[2], w, undirected)
          /\ edges' = AddEdgeEdges(edges, p[1], p[2], w, undirected)
    /\ ncalls' = ncalls + 1
    /\ UNCHANGED <<pc, arg, out, inp, bt, sim>>

AddEdge(W, D) == AddEdgeFrom(Vertices \X Vertices, W, D, MaxEdges)

(***************************************************************************)
(* Traversals: bfs, dfs_recursive and dfs_iterative on any graph.          *)
(***************************************************************************)
AddEdgeUnit == AddEdge({1}, BOOLEAN)

RunBfs ==
    /\ pc = "build"
    /\ \E start \in Vertices :
          /\ arg' = start
          /\ out' = bfs(adj, start)
    /\ pc' = "bfs"
    /\ UNCHANGED <<adj, edges, ncalls, inp, bt, sim>>

RunDfs ==
    /\ pc = "build"
    /\ \E start \in Vertices :
          /\ arg' = start
          /\ out' = [rec   |-> dfs_recursive(adj, start),
                     iter  |-> dfs_iterative(adj, start),
                     stale |-> DfsIterRun(adj, start).stale]
    /\ pc' = "dfs"
    /\ UNCHANGED <<adj, edges, ncalls, inp, bt, sim>>

NextTraverse == AddEdgeUnit \/ RunBfs \/ RunDfs

SpecTraverse == InitGraph /\ [][NextTraverse]_vars

(***************************************************************************)
(* Reference notions the traversal claims are stated against.              *)
(***************************************************************************)
Neighbours(A, u) == {A[u][i][1] : i \in 1 .. Len(A[u])}

\* the vertices at most k edges away from s
RECURSIVE Within(_, _, _)
Within(A, s, k) ==
    IF k = 0 THEN {s}
    ELSE LET S == Within(A, s, k - 1)
         IN  S \cup UNION {Neighbours(A, u) : u \in S}

Reachable(A, s) == Within(A, s, NumVertices)

\* the least number of edges on a path from s to a reachable v
HopCount(A, s, v) == CHOOSE k \in 0 .. NumVertices :
                        /\ v \in Within(A, s, k)
                        /\ \A j \in 0 .. (k - 1) : v \notin Within(A, s, j)

\* the vertex k parent-steps above v (NoneVal once the chain has ended)
RECURSIVE Climb(_, _, _)
Climb(parent, v, k) ==
    IF k = 0 \/ v = NoneVal THEN v ELSE Climb(parent, parent[v], k - 1)

\* C7: dfs_iterative returns the same visitation order as dfs_recursive,
\* for every graph and every start vertex.
C7_DfsSameOrder == pc = "dfs" => out.iter = out.rec

\* a run in which a vertex popped from the stack had been pushed more than
\* once, and every vertex was visited
C7_Witness ==
    /\ pc = "dfs"
    /\ out.stale
    /\ Len(out.iter) = NumVertices

\* C8: after bfs(start), every reachable v has dist[v] equal to the least
\* number of edges from start, and its parent chain is a path of the graph
\* that reaches start in exactly dist[v] steps; every unreachable vertex
\* keeps dist = INF and parent = -1; parent[start] = -1 and dist[start] = 0.
C8_BfsDistParent ==
    pc = "bfs" =>
        /\ out.dist[arg] = 0
        /\ out.parent[arg] = NoneVal
        /\ \A v \in Vertices :
              IF v \in Reachable(adj, arg)
              THEN /\ out.dist[v] = HopCount(adj, arg, v)
                   /\ Climb(out.parent, v, out.dist[v]) = arg
                   /\ \A k \in 0 .. (out.dist[v] - 1) :
                         LET c == Climb(out.parent, v, k)
                         IN  /\ c \in Vertices
                             /\ out.parent[c] \in Vertices
                             /\ c \in Neighbours(adj, out.parent[c])
              ELSE /\ out.dist[v] = INF
                   /\ out.parent[v] = NoneVal

\* a run that reaches some vertex two edges away and leaves none unreached,
\* on a graph in which that vertex has two incoming edges
C8_Witness ==
    /\ pc = "bfs"
    /\ \E v \in Vertices :
          /\ out.dist[v] = 2
          /\ Cardinality({u \in Vertices : v \in Neighbours(adj, u)}) >= 2

(***************************************************************************)
(* Minimum spanning trees: prim_mst and kruskal_mst on graphs built from   *)
(* undirected add_edge calls.                                              *)
(***************************************************************************)
WeightsMst == {1, 2, 3}

AddEdgeUndirected == AddEdge(WeightsMst, {TRUE})

RunMst ==
    /\ pc = "build"
    /\ \E start \in Vertices :
          /\ arg' = start
          /\ out' = [prim |-> prim_mst(adj, start), kruskal |-> kruskal_mst(edges)]
    /\ pc' = "mst"
    /\ UNCHANGED <<adj, edges, ncalls, inp, bt, sim>>

NextMst == AddEdgeUndirected \/ RunMst

SpecMst == InitGraph /\ [][NextMst]_vars

Connected(A) == \A s \in Vertices : Reachable(A, s) = Vertices

\* C6: on a connected graph built from undirected add_edge calls, prim_mst
\* (from any start) and kruskal_mst return the same total weight, and each
\* returns exactly n-1 edges.
C6_PrimEqualsKruskal ==
    (pc = "mst" /\ Connected(adj)) =>
        /\ out.prim.total_weight = out.kruskal.total_weight
        /\ Len(out.prim.mst_edges) = NumVertices - 1
        /\ Len(out.kruskal.mst_edges) = NumVertices - 1

\* a connected graph with two parallel edges of different weights
C6_Witness ==
    /\ pc = "mst"
    /\ Connected(adj)
    /\ \E i \in 1 .. Len(edges), j \in 1 .. Len(edges) :
          /\ edges[i][1] = edges[j][1]
          /\ edges[i][2] = edges[j][2]
          /\ edges[i][1] # edges[i][2]
          /\ edges[i][3] < edges[j][3]

(***************************************************************************)
(* Shortest paths: bellman_ford against shortest_path_distance on graphs   *)
(* with non-negative weights, and bellman_ford alone on graphs with        *)
(* negative weights.                                                       *)
(***************************************************************************)
WeightsNonNeg == {0, 1, 2}
WeightsSigned == {-1, 0, 1}

AddEdgeNonNeg == AddEdge(WeightsNonNeg, {FALSE})
AddEdgeSigned == AddEdge(WeightsSigned, {FALSE})

RunPaths ==
    /\ pc = "build"
    /\ \E source \in Vertices :
          /\ arg' = source
          /\ out' = [bf |-> bellman_ford(edges, source),
                     dj |-> [t \in Vertices |-> shortest_path_distance(adj, source, t)]]
    /\ pc' = "paths"
    /\ UNCHANGED <<adj, edges, ncalls, inp, bt, sim>>

RunBellmanFord ==
    /\ pc = "build"
    /\ \E source \in Vertices :
          /\ arg' = source
          /\ out' = bellman_ford(edges, source)
    /\ pc' = "bf"
    /\ UNCHANGED <<adj, edges, ncalls, inp, bt, sim>>

NextPaths == AddEdgeNonNeg \/ RunPaths
NextSigned == AddEdgeSigned \/ RunBellmanFord

SpecPaths == InitGraph /\ [][NextPaths]_vars
SpecSigned == InitGraph /\ [][NextSigned]_vars

\* C5: with all weights non-negative, bellman_ford(source) does not raise
\* and gives every vertex t the distance shortest_path_distance(source, t),
\* INF from both for the vertices unreachable from source.
C5_BellmanFordEqualsDijkstra ==
    (pc = "paths" /\ \A k \in 1 .. Len(edges) : edges[k][3] >= 0) =>
        /\ ~out.bf.raised
        /\ \A t \in Vertices : out.bf.dist[t] = out.dj[t]
        /\ \A t \in Vertices : t \notin Reachable(adj, arg) <=> out.dj[t] = INF

\* a vertex with a direct edge from the source that is longer than its
\* shortest path
C5_Witness ==
    /\ pc = "paths"
    /\ \E k \in 1 .. Len(edges) :
          /\ edges[k][1] = arg
          /\ out.dj[edges[k][2]] < edges[k][3]
          /\ out.dj[edges[k][2]] > 0

\* the least weight among the edges u -> v (INF when there is none)
RECURSIVE MinWeight(_, _, _, _)
MinWeight(E, k, u, v) ==
    IF k > Len(E) THEN INF
    ELSE LET r == MinWeight(E, k + 1, u, v)
         IN  IF E[k][1] = u /\ E[k][2] = v /\ E[k][3] < r THEN E[k][3] ELSE r

\* the simple cycles of the graph, as sequences of distinct vertices
SimpleCycles(E) ==
    {c \in UNION {[1 .. k -> Vertices] : k \in 1 .. NumVertices} :
        /\ \A i \in 1 .. Len(c), j \in 1 .. Len(c) : i # j => c[i] # c[j]
        /\ \A i \in 1 .. Len(c) :
              MinWeight(E, 1, c[i], c[(i % Len(c)) + 1]) # INF}

RECURSIVE CycleWeight(_, _, _)
CycleWeight(E, c, i) ==
    IF i > Len(c) THEN 0
    ELSE MinWeight(E, 1, c[i], c[(i % Len(c)) + 1]) + CycleWeight(E, c, i + 1)

NegativeCycleReachable(A, E, s) ==
    \E c \in SimpleCycles(E) : c[1] \in Reachable(A, s) /\ CycleWeight(E, c, 1) < 0

\* C9: bellman_ford(source) raises exactly when a negative-weight cycle is
\* reachable from source; otherwise no edge can relax the distances it
\* returns.
C9_NegativeCycleIff ==
    pc = "bf" =>
        /\ out.raised <=> NegativeCycleReachable(adj, edges, arg)
        /\ ~out.raised =>
              \A k \in 1 .. Len(edges) :
                  \/ out.dist[edges[k][1]] = INF
                  \/ out.dist[edges[k][1]] + edges[k][3] >= out.dist[edges[k][2]]

\* the relaxation loop ran to the pass limit with an update in its last
\* pass, on a graph with a negative edge and no negative cycle
C9_Witness ==
    /\ pc = "bf"
    /\ out.passes = NumVertices - 1
    /\ out.updated
    /\ ~out.raised
    /\ \E k \in 1 .. Len(edges) : edges[k][3] < 0

\* the loop ran to the pass limit and the final scan raised
C9_WitnessRaised ==
    /\ pc = "bf"
    /\ out.passes = NumVertices - 1
    /\ out.updated
    /\ out.raised

(***************************************************************************)
(* Floating-point values of the simulator, modelled as exact fractions     *)
(* <<numerator, denominator>> in lowest terms with a positive denominator; *)
(* inf and -inf are <<1, 0>> and <<-1, 0>>, and nan is <<0, 0>>.           *)
(***************************************************************************)
RECURSIVE Gcd(_, _)
Gcd(a, b) == IF b = 0 THEN a ELSE Gcd(b, a % b)

Abs(x) == IF x < 0 THEN -x ELSE x

Norm(n, d) ==
    LET g == Gcd(Abs(n), Abs(d))
    IN  IF d < 0 THEN <<(-n) \div g, (-d) \div g>> ELSE <<n \div g, d \div g>>

Frac(n) == <<n, 1>>
FInf == <<1, 0>>
FNan == <<0, 0>>

\* a distance of the graph library as a float: INF stands for float("inf")
Float(x) == IF x = INF THEN FInf ELSE Frac(x)

\* sums, products and quotients cancel common factors before multiplying;
\* inf + -inf, inf * 0, inf / inf and every operation on nan give nan
FAdd(a, b) ==
    IF a[2] = 0 \/ b[2] = 0
    THEN IF a = FNan \/ b = FNan THEN FNan
         ELSE IF a[2] = 0 /\ b[2] = 0 THEN (IF a = b THEN a ELSE FNan)
         ELSE IF a[2] = 0 THEN a ELSE b
    ELSE LET g == Gcd(a[2], b[2])
         IN  Norm(a[1] * (b[2] \div g) + b[1] * (a[2] \div g), (a[2] \div g) * b[2])

FNeg(a) == <<-a[1], a[2]>>
FSub(a, b) == FAdd(a, FNeg(b))

FMul(a, b) ==
    IF a[2] = 0 \/ b[2] = 0
    THEN IF a[1] = 0 \/ b[1] = 0 THEN FNan
         ELSE IF (a[1] < 0) = (b[1] < 0) THEN FInf ELSE FNeg(FInf)
    ELSE LET g1 == Gcd(Abs(a[1]), b[2])
             g2 == Gcd(Abs(b[1]), a[2])
         IN  Norm((a[1] \div g1) * (b[1] \div g2), (a[2] \div g2) * (b[2] \div g1))

\* the divisor is never 0.0 where the simulator divides
FDiv(a, b) ==
    IF b[2] = 0
    THEN IF b = FNan \/ a[2] = 0 THEN FNan ELSE Frac(0)
    ELSE FMul(a, IF b[1] < 0 THEN <<-b[2], -b[1]>> ELSE <<b[2], b[1]>>)

FLess(a, b) == FSub(a, b)[1] < 0
FZero == Frac(0)

RECURSIVE FSum(_)
FSum(s) == IF s = <<>> THEN FZero ELSE FAdd(Head(s), FSum(Tail(s)))

(***************************************************************************)
(* data_models.py: the parameters of the distance model and the simulator  *)
(***************************************************************************)
BASE_MPG == 45
MAX_SPEED == 75
MAX_HOURS_PER_DAY == 8
FeetPerMile == 5280

(***************************************************************************)
(* edge_real_distance and adjusted_mpg                                     *)
(***************************************************************************)
edge_real_distance(map_d_miles, sea_A_ft, sea_B_ft) ==
    IF map_d_miles = FZero THEN [real_distance |-> FZero, tan_theta |-> FZero]
    ELSE LET elevation_diff_miles == FDiv(Frac(sea_B_ft - sea_A_ft), Frac(FeetPerMile))
         IN  IF ~FLess(FZero, map_d_miles)
             THEN [real_distance |-> map_d_miles, tan_theta |-> FZero]
             ELSE LET tan_theta == FDiv(elevation_diff_miles, map_d_miles)
                  IN  [real_distance |-> FMul(map_d_miles, FAdd(Frac(1), tan_theta)),
                       tan_theta     |-> tan_theta]

adjusted_mpg(tan_theta) ==
    LET factor == FAdd(Frac(1), tan_theta)
    IN  IF ~FLess(FZero, factor) THEN Frac(BASE_MPG)
        ELSE FDiv(Frac(BASE_MPG), factor)

(***************************************************************************)
(* simulate_trip.  In is the call's arguments [cities, weather_risk,       *)
(* route_cities]; A is graph.adj; s holds the function's locals and the    *)
(* position reached: "for" (top of the loop over route pairs), "while"     *)
(* (the test of the day-splitting loop), "return", or "OverflowError" when *)
(* the date arithmetic of line 131 has raised.  Dates are day numbers.     *)
(***************************************************************************)
LastDate == 14        \* the day number that stands for datetime.date.max

\* weather_risk.get((c, date), 1.0)
RiskOn(weather_risk, c, date) ==
    IF <<c, date>> \in DOMAIN weather_risk THEN Frac(weather_risk[<<c, date>>])
    ELSE Frac(1)

\* the weight of the first entry for v in adj[u], NoneVal when there is none
FirstDirectMut(A, u, v) ==
    LET hits == {k \in 1 .. Len(A[u]) : A[u][k][1] = v}
    IN  IF hits = {} THEN NoneVal
        ELSE A[u][CHOOSE k \in hits : \A j \in hits : k >= j][2]

FirstDirect(A, u, v) ==
    LET hits == {k \in 1 .. Len(A[u]) : A[u][k][1] = v}
    IN  IF hits = {} THEN NoneVal
        ELSE A[u][CHOOSE k \in hits : \A j \in hits : k <= j][2]

MapDistance(A, u, v) ==
    IF FirstDirect(A, u, v) # NoneVal THEN FirstDirect(A, u, v)
    ELSE shortest_path_distance(A, u, v)

\* real distance, fuel and driving time of the hop u -> v, before splitting
EdgeValues(A, cities, u, v) ==
    LET map_d   == MapDistance(A, u, v)
        rd      == edge_real_distance(Float(map_d), cities[u], cities[v])
        mpg_now == adjusted_mpg(rd.tan_theta)
    IN  [map_d   |-> map_d,
         real_d  |-> rd.real_distance,
         gallons |-> FDiv(rd.real_distance, mpg_now),
         time_h  |-> FDiv(rd.real_distance, Frac(MAX_SPEED))]

SimStart(start_date) ==
    [at                  |-> "for",
     i                   |-> 1,
     total_real_distance |-> FZero,
     total_gallons       |-> FZero,
     total_hours         |-> FZero,
     daily_risk          |-> <<>>,
     daily_hours         |-> <<>>,
     daily_distance      |-> <<>>,
     daily_gallons       |-> <<>>,
     daily_mpg           |-> <<>>,
     current_date        |-> start_date,
     hours_today         |-> FZero,
     risk_today          |-> FZero,
     dist_today          |-> FZero,
     gallons_today       |-> FZero,
     map_d               |-> NoneVal,
     real_d              |-> FZero,
     gallons             |-> FZero,
     time_h              |-> FZero,
     portions            |-> <<>>]

DayMpg(dist, gal) == IF FLess(FZero, gal) THEN FDiv(dist, gal) ELSE "None"

\* the five ledger appends that close the current day
CloseDay(s) ==
    [s EXCEPT !.daily_hours    = Append(@, <<s.current_date, s.hours_today>>),
              !.daily_risk     = Append(@, <<s.current_date, s.risk_today>>),
              !.daily_distance = Append(@, <<s.current_date, s.dist_today>>),
              !.daily_gallons  = Append(@, <<s.current_date, s.gallons_today>>),
              !.daily_mpg      = Append(@, <<s.current_date,
                                             DayMpg(s.dist_today, s.gallons_today)>>)]

PairRiskMut(In, s) ==
    FAdd(RiskOn(In.weather_risk, In.route_cities[s.i], s.current_date),
         RiskOn(In.weather_risk, In.route_cities[s.i + 1], s.current_date))

PairRisk(In, s) ==
    FDiv(FAdd(RiskOn(In.weather_risk, In.route_cities[s.i], s.current_date),
              RiskOn(In.weather_risk, In.route_cities[s.i + 1], s.current_date)),
         Frac(2))

\* lines 82-101: the next route pair's map distance, real distance, fuel, time
AtPair(In, s) == s.at = "for" /\ s.i <= Len(In.route_cities) - 1

PairStep(A, In, s) ==
    LET e == EdgeValues(A, In.cities, In.route_cities[s.i], In.route_cities[s.i + 1])
    IN  [s EXCEPT !.at = "while",
                  !.map_d = e.map_d,
                  !.real_d = e.real_d,
                  !.gallons = e.gallons,
                  !.time_h = e.time_h,
                  !.portions = <<>>]

\* line 104: hours_today + time_h > MAX_HOURS_PER_DAY
OverCapMut(s) == FLess(Frac(MAX_HOURS_PER_DAY), s.time_h)
OverCap(s) == FLess(Frac(MAX_HOURS_PER_DAY), FAdd(s.hours_today, s.time_h))

\* line 105: remain = MAX_HOURS_PER_DAY - hours_today
RemainMut(hours_today) == Frac(MAX_HOURS_PER_DAY)
Remain(hours_today) == FSub(Frac(MAX_HOURS_PER_DAY), hours_today)

\* lines 105-140: one iteration of the day-splitting loop.  s.portions logs
\* the <<dist_portion, gal_portion, remain>> allocated by each iteration for
\* the current pair; no step reads it.
SplitStep(In, s) ==
    LET remain       == Remain(s.hours_today)
        proportion   == FDiv(remain, s.time_h)
        dist_portion == FMul(s.real_d, proportion)
        gal_portion  == FMul(s.gallons, proportion)
        filled == [s EXCEPT !.hours_today   = Frac(MAX_HOURS_PER_DAY),
                            !.dist_today    = FAdd(@, dist_portion),
                            !.gallons_today = FAdd(@, gal_portion),
                            !.risk_today    = FAdd(@, PairRisk(In, s))]
        closed == CloseDay(filled)
    IN  IF s.current_date = LastDate THEN [closed EXCEPT !.at = "OverflowError"]
        ELSE
        [closed EXCEPT !.current_date  = @ + 1,
                       !.hours_today   = FZero,
                       !.risk_today    = FZero,
                       !.dist_today    = FZero,
                       !.gallons_today = FZero,
                       !.real_d        = FSub(@, dist_portion),
                       !.gallons       = FSub(@, gal_portion),
                       !.time_h        = FSub(@, remain),
                       !.portions      = Append(@, <<dist_portion, gal_portion, remain>>)]

\* lines 143-154: the rest of the pair is added to the current day and to
\* the totals
RemainingStep(In, s) ==
    [s EXCEPT !.hours_today         = FAdd(@, s.time_h),
              !.total_hours         = FAdd(@, s.time_h),
              !.risk_today          = FAdd(@, PairRisk(In, s)),
              !.dist_today          = FAdd(@, s.real_d),
              !.gallons_today       = FAdd(@, s.gallons),
              !.total_real_distance = FAdd(@, s.real_d),
              !.total_gallons       = FAdd(@, s.gallons),
              !.portions            = Append(@, <<s.real_d, s.gallons, s.time_h>>),
              !.i                   = @ + 1,
              !.at                  = "for"]

\* lines 157-163: the last day is closed
FinishStep(s) == [CloseDay(s) EXCEPT !.at = "return"]

\* the next step of simulate_trip from s
SimStep(A, In, s) ==
    IF s.at = "for"
    THEN IF AtPair(In, s) THEN PairStep(A, In, s) ELSE FinishStep(s)
    ELSE IF OverCap(s) THEN SplitStep(In, s) ELSE RemainingStep(In, s)

RECURSIVE SimRun(_, _, _)
SimRun(A, In, s) ==
    IF s.at \in {"return", "OverflowError"} THEN s ELSE SimRun(A, In, SimStep(A, In, s))

Second(pairs) == [k \in 1 .. Len(pairs) |-> pairs[k][2]]

\* lines 165-182: the dict simulate_trip returns
SimResult(s) ==
    [total_distance_miles |-> s.total_real_distance,
     total_gallons        |-> s.total_gallons,
     total_hours          |-> s.total_hours,
     total_risk           |-> FSum(Second(s.daily_risk)),
     overall_mpg          |-> DayMpg(s.total_real_distance, s.total_gallons),
     daily_hours          |-> s.daily_hours,
     daily_risk           |-> s.daily_risk,
     daily_distance       |-> s.daily_distance,
     daily_gallons        |-> s.daily_gallons,
     daily_mpg            |-> s.daily_mpg,
     end_date             |-> s.current_date]

\* the dict returned, or the name of the exception raised
Outcome(s) == IF s.at = "return" THEN SimResult(s) ELSE s.at

simulate_trip(A, In, start_date) == Outcome(SimRun(A, In, SimStart(start_date)))

(***************************************************************************)
(* One run of simulate_trip, step by step, on a road map built by          *)
(* undirected add_edge calls.  Every consecutive pair of the route is      *)
(* joined by some path of the map.                                         *)
(***************************************************************************)
MaxRoads == 2         \* add_edge calls that build a road map
MaxRoute == 3         \* cities on a route

RoadPairs == {<<0, 1>>, <<1, 2>>, <<0, 2>>}
RoadMiles == {300, 1350}
Elevations == {0, 26400}
Routes == UNION {[1 .. k -> Vertices] : k \in 1 .. MaxRoute}

\* a weather table with entries for some (city, date) pairs only
SampleRisk == (<<0, 0>> :> 0) @@ (<<1, 0>> :> 3) @@ (<<1, 1>> :> 2) @@ (<<2, 1>> :> 4)

AddRoad == AddEdgeFrom(RoadPairs, RoadMiles, {TRUE}, MaxRoads)

Joined(A, route) ==
    \A k \in 1 .. (Len(route) - 1) : route[k + 1] \in Reachable(A, route[k])

StartTrip ==
    /\ pc = "build"
    /\ \E cities \in [Vertices -> Elevations], route \in Routes :
          /\ Joined(adj, route)
          /\ inp' = [cities        |-> cities,
                     weather_risk  |-> SampleRisk,
                     route_cities  |-> route,
                     start_date    |-> 0]
    /\ sim' = SimStart(0)
    /\ pc' = "sim"
    /\ UNCHANGED <<adj, edges, ncalls, arg, out, bt>>

NextPair ==
    /\ pc = "sim"
    /\ AtPair(inp, sim)
    /\ sim' = PairStep(adj, inp, sim)
    /\ UNCHANGED <<adj, edges, ncalls, pc, arg, out, inp, bt>>

SplitDay ==
    /\ pc = "sim"
    /\ sim.at = "while"
    /\ OverCap(sim)
    /\ sim' = SplitStep(inp, sim)
    /\ UNCHANGED <<adj, edges, ncalls, pc, arg, out, inp, bt>>

AddRemaining ==
    /\ pc = "sim"
    /\ sim.at = "while"
    /\ ~OverCap(sim)
    /\ sim' = RemainingStep(inp, sim)
    /\ UNCHANGED <<adj, edges, ncalls, pc, arg, out, inp, bt>>

FinishLastDay ==
    /\ pc = "sim"
    /\ sim.at = "for"
    /\ ~AtPair(inp, sim)
    /\ sim' = FinishStep(sim)
    /\ out' = SimResult(sim')
    /\ UNCHANGED <<adj, edges, ncalls, pc, arg, inp, bt>>

NextTrip == AddRoad \/ StartTrip \/ NextPair \/ SplitDay \/ AddRemaining \/ FinishLastDay

SpecTrip == InitGraph /\ [][NextTrip]_vars

Returned == pc = "sim" /\ sim.at = "return"

\* the sum over the pairs k .. of the route of the unsplit per-edge values
RECURSIVE RouteSum(_, _, _)
RouteSum(A, In, k) ==
    IF k > Len(In.route_cities) - 1
    THEN [real_d |-> FZero, gallons |-> FZero, time_h |-> FZero]
    ELSE LET e == EdgeValues(A, In.cities, In.route_cities[k], In.route_cities[k + 1])
             r == RouteSum(A, In, k + 1)
         IN  [real_d  |-> FAdd(e.real_d, r.real_d),
              gallons |-> FAdd(e.gallons, r.gallons),
              time_h  |-> FAdd(e.time_h, r.time_h)]

Column(rows, c) == [k \in 1 .. Len(rows) |-> rows[k][c]]

\* C1: the totals simulate_trip returns are the sums over all route pairs of
\* the unsplit real distance, fuel and driving time.
C1_TotalsAreFullSums ==
    Returned =>
        LET full == RouteSum(adj, inp, 1)
        IN  /\ out.total_distance_miles = full.real_d
            /\ out.total_gallons = full.gallons
            /\ out.total_hours = full.time_h

\* C2: when a pair has been split over two or more days, the portions given
\* to the days add up to the pair's unsplit distance, fuel and time; and on
\* return the daily_distance, daily_gallons and daily_hours ledgers add up
\* to the unsplit values of the whole route.
C2_LosslessSplit ==
    /\ (pc = "sim" /\ sim.at = "for" /\ Len(sim.portions) >= 2) =>
          LET e == EdgeValues(adj, inp.cities, inp.route_cities[sim.i - 1],
                              inp.route_cities[sim.i])
          IN  /\ FSum(Column(sim.portions, 1)) = e.real_d
              /\ FSum(Column(sim.portions, 2)) = e.gallons
              /\ FSum(Column(sim.portions, 3)) = e.time_h
    /\ Returned =>
          LET full == RouteSum(adj, inp, 1)
          IN  /\ FSum(Second(out.daily_distance)) = full.real_d
              /\ FSum(Second(out.daily_gallons)) = full.gallons
              /\ FSum(Second(out.daily_hours)) = full.time_h

\* a returned run in which the second pair of the route was split over three
\* days, starting on a day that already had hours
C2_Witness ==
    /\ Returned
    /\ Len(sim.portions) >= 3
    /\ Len(inp.route_cities) = 3
    /\ Len(out.daily_hours) >= 4

FLeq(a, b) == ~FLess(b, a)

\* C10: hours_today never exceeds the cap; every ledger entry closed by
\* overflow records exactly the cap and the final entry at most the cap.
C10_HoursWithinCap ==
    pc = "sim" =>
        /\ FLeq(sim.hours_today, Frac(MAX_HOURS_PER_DAY))
        /\ \A k \in 1 .. Len(sim.daily_hours) :
              IF sim.at = "return" /\ k = Len(sim.daily_hours)
              THEN FLeq(sim.daily_hours[k][2], Frac(MAX_HOURS_PER_DAY))
              ELSE sim.daily_hours[k][2] = Frac(MAX_HOURS_PER_DAY)

\* a returned run with a day closed by overflow in the middle of the second
\* pair, and a last day that holds less than the cap
C10_Witness ==
    /\ Returned
    /\ Len(inp.route_cities) = 3
    /\ Len(sim.daily_hours) >= 2
    /\ Len(sim.portions) = 2
    /\ FLess(FZero, sim.portions[1][3])
    /\ FLess(sim.portions[1][3], Frac(MAX_HOURS_PER_DAY))
    /\ FLess(sim.daily_hours[Len(sim.daily_hours)][2], Frac(MAX_HOURS_PER_DAY))

\* the least total weight of a walk of at most k entries of A from u to v,
\* INF when there is none
RECURSIVE LeastMiles(_, _, _, _)
LeastMiles(A, u, v, k) ==
    IF k = 0 THEN IF u = v THEN 0 ELSE INF
    ELSE LET via == {LeastMiles(A, u, x[1], k - 1) + A[x[1]][x[2]][2] :
                        x \in {y \in Vertices \X (1 .. MaxEdges * 2) :
                                  /\ y[2] <= Len(A[y[1]])
                                  /\ A[y[1]][y[2]][1] = v
                                  /\ LeastMiles(A, u, y[1], k - 1) < INF}}
             all == via \cup {LeastMiles(A, u, v, k - 1)}
         IN  CHOOSE m \in all : \A n \in all : m <= n

\* the pair being processed, or just processed, by the run
PairFrom == inp.route_cities[IF sim.at = "while" THEN sim.i ELSE sim.i - 1]
PairTo == inp.route_cities[IF sim.at = "while" THEN sim.i + 1 ELSE sim.i]
DirectEntries == {k \in 1 .. Len(adj[PairFrom]) : adj[PairFrom][k][1] = PairTo}

\* the map distance of the pair: the first entry for v in adj[u] when there
\* is one, the least weight of a path from u to v otherwise
PairMapDistanceOk ==
    (pc = "sim" /\ sim.at = "while") =>
        IF DirectEntries # {}
        THEN \E k \in DirectEntries :
                /\ \A j \in DirectEntries : k <= j
                /\ sim.map_d = adj[PairFrom][k][2]
        ELSE /\ sim.map_d = LeastMiles(adj, PairFrom, PairTo, NumVertices - 1)
             /\ sim.map_d < INF

\* between cities of equal elevation a pair without a direct entry is driven
\* over its shortest-path distance: that is the pair's distance before any
\* split and the sum of the portions entered in the ledger for it
FallbackDistanceOk ==
    (/\ pc = "sim"
     /\ sim.map_d # NoneVal
     /\ DirectEntries = {}
     /\ inp.cities[PairFrom] = inp.cities[PairTo]) =>
        LET least == Frac(LeastMiles(adj, PairFrom, PairTo, NumVertices - 1))
        IN  /\ (sim.at = "while" /\ sim.portions = <<>>) => sim.real_d = least
            /\ (sim.at = "for" /\ sim.i > 1) => FSum(Column(sim.portions, 1)) = least

\* the division of the day-splitting loop is defined whenever the loop is
\* entered, and a pair is split over no more days than its driving time
\* fills
RunCompletes ==
    (pc = "sim" /\ sim.at = "while") =>
        /\ OverCap(sim) => FLess(FZero, sim.time_h)
        /\ FLeq(Frac(MAX_HOURS_PER_DAY * (Len(sim.portions) - 1)),
                EdgeValues(adj, inp.cities, PairFrom, PairTo).time_h)

DayOf(h) ==
    IF h[1] <= 0 THEN 0
    ELSE (h[1] + MAX_HOURS_PER_DAY * h[2] - 1) \div (MAX_HOURS_PER_DAY * h[2]) - 1

\* the unsplit driving time of the pairs before pair k of the route
RECURSIVE HoursBefore(_)
HoursBefore(k) ==
    IF k = 1 THEN FZero
    ELSE FAdd(HoursBefore(k - 1),
              EdgeValues(adj, inp.cities, inp.route_cities[k - 1],
                         inp.route_cities[k]).time_h)

\* the first and the last day on which a portion of pair k is processed
FirstDay(k) == DayOf(HoursBefore(k))
LastDay(k) == DayOf(HoursBefore(k + 1))

\* the average of the risks of the two cities of pair k on the date of day D
PairAverage(k, D) ==
    FDiv(FAdd(RiskOn(inp.weather_risk, inp.route_cities[k], inp.start_date + D),
              RiskOn(inp.weather_risk, inp.route_cities[k + 1], inp.start_date + D)),
         Frac(2))

\* one PairAverage for each of the pairs k .. of the route that has a portion
\* on day D
RECURSIVE RiskOfDay(_, _)
RiskOfDay(k, D) ==
    IF k > Len(inp.route_cities) - 1 THEN FZero
    ELSE FAdd(IF FirstDay(k) <= D /\ D <= LastDay(k) THEN PairAverage(k, D) ELSE FZero,
              RiskOfDay(k + 1, D))

\* C12: every pair adds the average of its two cities' risks on date D, 1.0
\* standing for a missing entry, exactly once to each date D on which a
\* portion of it is processed, so a pair spanning k days adds to k
\* consecutive entries of daily_risk; total_risk is the sum of the entries.
C12_RiskOncePerDay ==
    /\ (pc = "sim" /\ sim.at = "for" /\ sim.i > 1) =>
          Len(sim.portions) = LastDay(sim.i - 1) - FirstDay(sim.i - 1) + 1
    /\ Returned =>
          LET days == LastDay(Len(inp.route_cities) - 1) + 1
              ledger == [n \in 1 .. days |->
                           <<inp.start_date + n - 1, RiskOfDay(1, n - 1)>>]
          IN  /\ out.daily_risk = ledger
              /\ out.total_risk = FSum(Second(ledger))

\* a returned run of two pairs: the first fills day 0 to the cap exactly,
\* the second has an empty portion on day 0 and the rest on day 1, and both
\* add their risk to day 0, with a table entry and with a default
C12_Witness ==
    /\ Returned
    /\ Len(inp.route_cities) = 3
    /\ HoursBefore(2) = Frac(MAX_HOURS_PER_DAY)
    /\ FirstDay(2) = 0
    /\ LastDay(2) = 1
    /\ <<inp.route_cities[2], 0>> \notin DOMAIN inp.weather_risk
    /\ <<inp.route_cities[1], 0>> \in DOMAIN inp.weather_risk
    /\ Len(out.daily_risk) = 2
    /\ Len(sim.portions) = 2

(***************************************************************************)
(* One run of simulate_trip on any route over the cities of the road map,  *)
(* whether or not its consecutive pairs are joined by a path.              *)
(***************************************************************************)
StartTripAny ==
    /\ pc = "build"
    /\ \E cities \in [Vertices -> Elevations], route \in Routes :
          inp' = [cities        |-> cities,
                  weather_risk  |-> SampleRisk,
                  route_cities  |-> route,
                  start_date    |-> 0]
    /\ sim' = SimStart(0)
    /\ pc' = "sim"
    /\ UNCHANGED <<adj, edges, ncalls, arg, out, bt>>

NextTripAny ==
    AddRoad \/ StartTripAny \/ NextPair \/ SplitDay \/ AddRemaining \/ FinishLastDay

SpecTripAny == InitGraph /\ [][NextTripAny]_vars

\* the driving time of the current pair still to be put into days, counted
\* from the start of the current day
HoursToPlace(s) == FAdd(s.hours_today, s.time_h)

\* C13: simulate_trip ends by returning a result on every road map and
\* route, joined by paths or not: no step of the run raises, and every
\* iteration of the day-splitting loop leaves less of the pair's driving
\* time to place than it found.
C13_TerminatesWithResult ==
    [][(pc = "sim" /\ sim.at = "while") =>
          /\ sim'.at # "OverflowError"
          /\ sim'.at = "while" => FLess(HoursToPlace(sim'), HoursToPlace(sim))]_vars

(***************************************************************************)
(* best_travel_date: the scan of the window, one candidate date per step,  *)
(* each candidate simulated by simulate_trip.  Dates are day numbers.      *)
(***************************************************************************)
MaxDate == 4          \* window bounds and weather entries lie in 0 .. MaxDate

Dates == 0 .. MaxDate
SearchMiles == {450, 1350}
SearchRoutes == {<<0>>, <<0, 1>>, <<0, 1, 0>>}
RiskScores == {3}

\* weather tables with an entry for city 0 on some of the dates
RiskTables ==
    UNION {[({0} \X days) -> RiskScores] : days \in SUBSET Dates}

NoResult == [end_date |-> NoneVal]

InitSearch ==
    /\ \E w \in SearchMiles :
          /\ adj = AddEdgeAdj(EmptyAdj, 0, 1, w, TRUE)
          /\ edges = AddEdgeEdges(<<>>, 0, 1, w, TRUE)
    /\ ncalls = 1
    /\ \E route \in SearchRoutes, risk \in RiskTables :
          inp = [cities       |-> [v \in Vertices |-> 0],
                 weather_risk |-> risk,
                 route_cities |-> route]
    /\ \E start_window \in Dates, end_window \in Dates :
          bt = [start_window |-> start_window,
                end_window   |-> end_window,
                d            |-> start_window,
                best_date    |-> NoneVal,
                best_result  |-> NoResult]
    /\ pc = "search"
    /\ arg = NoneVal
    /\ out = <<>>
    /\ sim = <<>>

\* line 203: result["end_date"] > end_window
OverflowsMut(result, end_window) == result.end_date >= end_window
Overflows(result, end_window) == result.end_date > end_window

\* line 207: best_result is None or result["total_risk"] < best_result["total_risk"]
ImprovesMut(result, best_result) ==
    IF best_result = NoResult THEN TRUE
    ELSE ~FLess(best_result.total_risk, result.total_risk)
Improves(result, best_result) ==
    IF best_result = NoResult THEN TRUE
    ELSE FLess(result.total_risk, best_result.total_risk)

Candidate == simulate_trip(adj, inp, bt.d)

Scanning == pc = "search" /\ bt.d <= bt.end_window

\* lines 203-205: the candidate ends after the window
RejectDate ==
    /\ Scanning
    /\ Overflows(Candidate, bt.end_window)
    /\ bt' = [bt EXCEPT !.d = @ + 1]
    /\ UNCHANGED <<adj, edges, ncalls, pc, arg, out, inp, sim>>

\* lines 207-211: the candidate becomes the best so far
KeepDate ==
    /\ Scanning
    /\ LET result == Candidate
       IN  /\ ~Overflows(result, bt.end_window)
           /\ Improves(result, bt.best_result)
           /\ bt' = [bt EXCEPT !.best_result = result, !.best_date = bt.d, !.d = @ + 1]
    /\ UNCHANGED <<adj, edges, ncalls, pc, arg, out, inp, sim>>

\* lines 207, 211: the candidate is feasible and no better
PassDate ==
    /\ Scanning
    /\ LET result == Candidate
       IN  /\ ~Overflows(result, bt.end_window)
           /\ ~Improves(result, bt.best_result)
    /\ bt' = [bt EXCEPT !.d = @ + 1]
    /\ UNCHANGED <<adj, edges, ncalls, pc, arg, out, inp, sim>>

\* lines 213-214: raise ValueError("Route cannot be completed in the window.")
RaiseNoWindow ==
    /\ pc = "search"
    /\ bt.d > bt.end_window
    /\ bt.best_result = NoResult
    /\ pc' = "failed"
    /\ UNCHANGED <<adj, edges, ncalls, arg, out, inp, bt, sim>>

\* line 216: return best_date, best_result
ReturnBest ==
    /\ pc = "search"
    /\ bt.d > bt.end_window
    /\ bt.best_result # NoResult
    /\ pc' = "found"
    /\ out' = [best_date |-> bt.best_date, best_result |-> bt.best_result]
    /\ UNCHANGED <<adj, edges, ncalls, arg, inp, bt, sim>>

NextSearch == RejectDate \/ KeepDate \/ PassDate \/ RaiseNoWindow \/ ReturnBest

SpecSearch == InitSearch /\ [][NextSearch]_vars

\* simulate_trip from every start date of the window
Trips == [d \in bt.start_window .. bt.end_window |-> simulate_trip(adj, inp, d)]

\* the start dates of the window whose simulated trip in T ends within it
FeasibleIn(T) == {d \in DOMAIN T : T[d].end_date <= bt.end_window}

\* C3: best_travel_date returns a feasible start date of the window whose
\* total risk is least among the feasible ones, the earliest such date, with
\* the result of simulating from it.
C3_EarliestMinimumRisk ==
    pc = "found" =>
        LET T == Trips
        IN  /\ out.best_date \in FeasibleIn(T)
            /\ out.best_result = T[out.best_date]
            /\ \A d \in FeasibleIn(T) :
                  /\ ~FLess(T[d].total_risk, out.best_result.total_risk)
                  /\ T[d].total_risk = out.best_result.total_risk => out.best_date <= d

\* the least risk is reached on two feasible dates, and an earlier feasible
\* date has a higher risk
C3_Witness ==
    /\ pc = "found"
    /\ LET T == Trips
       IN  /\ \E d \in FeasibleIn(T) :
                 d > out.best_date /\ T[d].total_risk = out.best_result.total_risk
           /\ \E d \in FeasibleIn(T) :
                 d < out.best_date /\ FLess(out.best_result.total_risk, T[d].total_risk)
           /\ \E d \in DOMAIN T : d \notin FeasibleIn(T)

\* C4: best_travel_date fails exactly when no start date of the window is
\* feasible (an empty window included); when exactly one is, it is returned.
C4_FailsIffNoFeasibleDate ==
    pc \in {"failed", "found"} =>
        LET F == FeasibleIn(Trips)
        IN  /\ pc = "failed" <=> F = {}
            /\ Cardinality(F) = 1 => F = {out.best_date}

\* the search failed on a window of several dates, the trip fitting in none
C4_Witness ==
    /\ pc = "failed"
    /\ bt.end_window > bt.start_window

\* the search returned the only feasible date of a window of several dates
C4_WitnessOne ==
    /\ pc = "found"
    /\ Cardinality(FeasibleIn(Trips)) = 1
    /\ bt.end_window > bt.start_window
    /\ Len(out.best_result.daily_hours) > 1

====
